---- MODULE Spec2Model ----
(***************************************************************************)
(* The block parser of pipeline/tools/parser.py as a state machine.        *)
(*                                                                         *)
(* A line is a sequence of one-character strings; a text is the sequence   *)
(* of lines that str.splitlines() yields.  Each Parser instance is a frame *)
(* (lines, current, total, blocks so far, position in the code); the       *)
(* parsers instantiated for the body of an admonition or a tab are pushed  *)
(* on a stack of frames and popped when their parse() returns.             *)
(***************************************************************************)
EXTENDS Integers, Sequences, FiniteSets, TLC

(***************************************************************************)
(* Bounds                                                                  *)
(***************************************************************************)
MaxLines == 3

MaxLongLines == 4

\* parse() appends one block per parse_block call that returns a node, and a
\* parser that does not advance appends blocks until memory is exhausted:
\* the number of blocks one parser can hold
MaxBlocks == MaxLongLines + 2

\* the newline character
NL == "\n"

(***************************************************************************)
(* Characters and string helpers (str methods used by the parser)          *)
(***************************************************************************)
WS == {" ", "\t"}

Digits == {"0", "1", "2", "3", "4", "5", "6", "7", "8", "9"}

\* the backquote character (a string of the module cannot hold it literally)
BQ == "bq"

FENCE == <<BQ, BQ, BQ>>

Min(S) == CHOOSE x \in S : \A y \in S : x <= y

Max(S) == CHOOSE x \in S : \A y \in S : x >= y

\* number of consecutive characters of s, from position i on, that are in C
RunIn(s, i, C) ==
    LET stop == {j \in i..Len(s) : s[j] \notin C}
    IN  IF stop = {} THEN (IF i > Len(s) THEN 0 ELSE Len(s) - i + 1)
        ELSE Min(stop) - i

\* number of consecutive characters of s, from position i on, not in C
RunNotIn(s, i, C) ==
    LET stop == {j \in i..Len(s) : s[j] \in C}
    IN  IF stop = {} THEN (IF i > Len(s) THEN 0 ELSE Len(s) - i + 1)
        ELSE Min(stop) - i

CharAt(s, i, C) == i >= 1 /\ i <= Len(s) /\ s[i] \in C

StartsWith(s, p) == Len(s) >= Len(p) /\ SubSeq(s, 1, Len(p)) = p

\* str.lstrip(), str.rstrip(), str.strip()
LStrip(s) == SubSeq(s, RunIn(s, 1, WS) + 1, Len(s))

RStrip(s) ==
    LET keep == {j \in 1..Len(s) : s[j] \notin WS}
    IN  IF keep = {} THEN <<>> ELSE SubSeq(s, 1, Max(keep))

Strip(s) == LStrip(RStrip(s))

\* str.strip(chars)
StripChars(s, C) ==
    LET keep == {j \in 1..Len(s) : s[j] \notin C}
    IN  IF keep = {} THEN <<>> ELSE SubSeq(s, Min(keep), Max(keep))

\* str.split(None, 1) of a string: the first token, and the remainder after
\* the whitespace that follows it (<<>> when there is no second part)
SplitFirst(s) ==
    LET b == LStrip(s)
        t == RunNotIn(b, 1, WS)
        w == RunIn(b, t + 1, WS)
    IN  IF b = <<>> THEN <<>>
        ELSE IF t + w >= Len(b) THEN <<SubSeq(b, 1, t)>>
        ELSE <<SubSeq(b, 1, t), SubSeq(b, t + w + 1, Len(b))>>

\* sep.join(parts)
RECURSIVE Join(_, _)
Join(parts, sep) ==
    IF parts = <<>> THEN <<>>
    ELSE IF Len(parts) = 1 THEN parts[1]
    ELSE parts[1] \o sep \o Join(Tail(parts), sep)

(***************************************************************************)
(* Regular expressions: each returns the length of the match at the start  *)
(* of the line, 0 when the line does not match (no pattern matches the     *)
(* empty string)                                                           *)
(***************************************************************************)
\* ^ #{1,6} \s+
HEADING_PREFIX_RE(s) ==
    LET h == RunIn(s, 1, {"#"})
        w == RunIn(s, h + 1, WS)
    IN  IF h >= 1 /\ h <= 6 /\ w >= 1 THEN h + w ELSE 0

\* ^ (?P<hashes>#{1,6}) \s+ (?P<text>.*) $ : <<>> when no match, else
\* <<hashes, text>>
HEADING_LINE_RE(s) ==
    LET h == RunIn(s, 1, {"#"})
        w == RunIn(s, h + 1, WS)
    IN  IF h >= 1 /\ h <= 6 /\ w >= 1
        THEN <<SubSeq(s, 1, h), SubSeq(s, h + w + 1, Len(s))>>
        ELSE <<>>

\* ^ === \s* "(?P<title>[^"]+)" : <<>> when no match, else <<title>>
TAB_HEADER_RE(s) ==
    LET w == RunIn(s, 4, WS)
        t == RunNotIn(s, 5 + w, {"\""})
    IN  IF /\ StartsWith(s, <<"=", "=", "=">>)
           /\ CharAt(s, 4 + w, {"\""})
           /\ t >= 1
           /\ CharAt(s, 5 + w + t, {"\""})
        THEN <<SubSeq(s, 5 + w, 4 + w + t)>>
        ELSE <<>>

\* ^ (?P<indent>\s*) (?P<marker>[-+*]) \s+
UNORDERED_MARKER_RE(s) ==
    LET i == RunIn(s, 1, WS)
        w == RunIn(s, i + 2, WS)
    IN  IF CharAt(s, i + 1, {"-", "+", "*"}) /\ w >= 1 THEN i + 1 + w ELSE 0

\* ^ (?P<indent>\s*) (?P<num>\d+) (?P<delim>[.)]) \s+
ORDERED_MARKER_RE(s) ==
    LET i == RunIn(s, 1, WS)
        d == RunIn(s, i + 1, Digits)
        w == RunIn(s, i + d + 2, WS)
    IN  IF d >= 1 /\ CharAt(s, i + d + 1, {".", ")"}) /\ w >= 1
        THEN i + d + 1 + w ELSE 0

\* PARA_BREAK_RE.match(line): the alternation, tried at the start of the line
PARA_BREAK_RE(s) ==
    \/ StartsWith(s, FENCE)
    \/ HEADING_PREFIX_RE(s) > 0
    \/ (CharAt(s, 1, {"-", "+", "*"}) /\ RunIn(s, 2, WS) >= 1)
    \/ LET d == RunIn(s, 1, Digits)
       IN  d >= 1 /\ CharAt(s, d + 1, {".", ")"}) /\ RunIn(s, d + 2, WS) >= 1
    \/ StartsWith(s, <<">">>)
    \/ StartsWith(s, <<"!", "!", "!">>)
    \/ StartsWith(s, <<"?", "?", "?">>)
    \/ StartsWith(s, <<":", ":", ":">>)

\* str.splitlines(), for texts whose only line boundary is NL
RECURSIVE SplitLoop(_, _, _)
SplitLoop(text, line, acc) ==
    IF text = <<>> THEN (IF line = <<>> THEN acc ELSE Append(acc, line))
    ELSE IF Head(text) = NL THEN SplitLoop(Tail(text), <<>>, Append(acc, line))
    ELSE SplitLoop(Tail(text), Append(line, Head(text)), acc)

splitlines(text) == SplitLoop(text, <<>>, <<>>)

(***************************************************************************)
(* AST nodes                                                               *)
(***************************************************************************)
Document(blocks, start_line, limit_line) ==
    [kind |-> "Document", start_line |-> start_line,
     limit_line |-> limit_line, blocks |-> blocks]

Heading(level, value, start_line, limit_line) ==
    [kind |-> "Heading", start_line |-> start_line,
     limit_line |-> limit_line, level |-> level, value |-> value]

Paragraph(value, start_line, limit_line) ==
    [kind |-> "Paragraph", start_line |-> start_line,
     limit_line |-> limit_line, value |-> value]

\* language is <<>> for None and <<name>> otherwise
CodeBlock(language, meta, content, start_line, limit_line) ==
    [kind |-> "CodeBlock", start_line |-> start_line,
     limit_line |-> limit_line, language |-> language, meta |-> meta,
     content |-> content]

ListItem(blocks, start_line, limit_line) ==
    [kind |-> "ListItem", start_line |-> start_line,
     limit_line |-> limit_line, blocks |-> blocks]

UnorderedList(items, start_line, limit_line) ==
    [kind |-> "UnorderedList", start_line |-> start_line,
     limit_line |-> limit_line, items |-> items]

OrderedList(items, start_line, limit_line) ==
    [kind |-> "OrderedList", start_line |-> start_line,
     limit_line |-> limit_line, items |-> items]

QuoteBlock(lines, start_line, limit_line) ==
    [kind |-> "QuoteBlock", start_line |-> start_line,
     limit_line |-> limit_line, lines |-> lines]

Tab(title, blocks, start_line, limit_line) ==
    [kind |-> "Tab", start_line |-> start_line,
     limit_line |-> limit_line, title |-> title, blocks |-> blocks]

TabBlock(tabs, start_line, limit_line) ==
    [kind |-> "TabBlock", start_line |-> start_line,
     limit_line |-> limit_line, tabs |-> tabs]

\* Admonition with the ??? tag making it foldable
Admonition_FoldableByTag(tag, title, blocks, foldable, start_line, limit_line) ==
    [kind |-> "Admonition", start_line |-> start_line,
     limit_line |-> limit_line, tag |-> tag, title |-> title,
     blocks |-> blocks, foldable |-> (tag = <<"?", "?", "?">>)]

Admonition(tag, title, blocks, foldable, start_line, limit_line) ==
    [kind |-> "Admonition", start_line |-> start_line,
     limit_line |-> limit_line, tag |-> tag, title |-> title,
     blocks |-> blocks, foldable |-> foldable]

(***************************************************************************)
(* Parser: construction and helpers.  A parser p is a record; at is its    *)
(* position in the code: "parse" (the loop of parse), "admonition" and     *)
(* "tab" (waiting for the nested parse() of a body), "tabs" (the loop of   *)
(* parse_tab_block); start_ln, tag, title, header_ln and tabs are the      *)
(* locals of the handler that is waiting.                                  *)
(***************************************************************************)
Parser(text) ==
    [lines |-> splitlines(text), current |-> 0,
     total |-> Len(splitlines(text)), blocks |-> <<>>, at |-> "parse",
     start_ln |-> 0, header_ln |-> 0, tag |-> <<>>, title |-> <<>>,
     tabs |-> <<>>]

eof(p) == p.current >= p.total

peek(p) == IF eof(p) THEN <<>> ELSE p.lines[p.current + 1]

\* parse with the total line count as limit_line
parse_LimitIsTotal(p) == Document(p.blocks, 1, p.total)

\* the value parse() returns once its loop is over
parse(p) == Document(p.blocks, 1, p.total + 1)

\* parse_block with the heading test dropped: a heading
\* line falls through to the later tests
parse_block_NoHeading(line) ==
    IF line = <<>> THEN "blank"
    ELSE IF StartsWith(line, FENCE) THEN "code_block"
    ELSE IF UNORDERED_MARKER_RE(line) > 0 THEN "unordered_list"
    ELSE IF ORDERED_MARKER_RE(line) > 0 THEN "ordered_list"
    ELSE IF StartsWith(line, <<">">>) THEN "quote_block"
    ELSE IF StartsWith(line, <<"!", "!", "!">>)
            \/ StartsWith(line, <<"?", "?", "?">>) THEN "admonition"
    ELSE IF StartsWith(line, <<"=", "=", "=">>) THEN "tab_block"
    ELSE "paragraph"

\* parse_block: the handler the dispatcher chooses for the current line
parse_block(line) ==
    IF line = <<>> THEN "blank"
    ELSE IF StartsWith(line, FENCE) THEN "code_block"
    ELSE IF HEADING_PREFIX_RE(line) > 0 THEN "heading"
    ELSE IF UNORDERED_MARKER_RE(line) > 0 THEN "unordered_list"
    ELSE IF ORDERED_MARKER_RE(line) > 0 THEN "ordered_list"
    ELSE IF StartsWith(line, <<">">>) THEN "quote_block"
    ELSE IF StartsWith(line, <<"!", "!", "!">>)
            \/ StartsWith(line, <<"?", "?", "?">>) THEN "admonition"
    ELSE IF StartsWith(line, <<"=", "=", "=">>) THEN "tab_block"
    ELSE "paragraph"

(***************************************************************************)
(* Block parsers that make no nested parse: each gives the node returned   *)
(* and the cursor it leaves                                                *)
(***************************************************************************)
RECURSIVE CodeLoop(_, _, _)
CodeLoop(p, cur, content) ==
    IF cur >= p.total THEN [current |-> cur, content |-> content]
    ELSE IF StartsWith(Strip(p.lines[cur + 1]), FENCE)
         THEN [current |-> cur + 1, content |-> content]
    ELSE CodeLoop(p, cur + 1, Append(content, p.lines[cur + 1]))

\* parse_code_block with end_ln = self.current
parse_code_block_EndIsCurrent(p) ==
    LET start_ln   == p.current + 1
        fence_line == Strip(peek(p))
        fence_body == Strip(SubSeq(fence_line, 4, Len(fence_line)))
        parts      == SplitFirst(fence_body)
        language   == IF fence_body # <<>> THEN <<parts[1]>> ELSE <<>>
        meta       == IF fence_body # <<>> /\ Len(parts) > 1
                      THEN parts[2] ELSE <<>>
        r          == CodeLoop(p, p.current + 1, <<>>)
    IN  [node |-> CodeBlock(language, meta, Join(r.content, <<NL>>),
                            start_ln, r.current),
         current |-> r.current]

parse_code_block(p) ==
    LET start_ln   == p.current + 1
        fence_line == Strip(peek(p))
        fence_body == Strip(SubSeq(fence_line, 4, Len(fence_line)))
        parts      == SplitFirst(fence_body)
        language   == IF fence_body # <<>> THEN <<parts[1]>> ELSE <<>>
        meta       == IF fence_body # <<>> /\ Len(parts) > 1
                      THEN parts[2] ELSE <<>>
        r          == CodeLoop(p, p.current + 1, <<>>)
    IN  [node |-> CodeBlock(language, meta, Join(r.content, <<NL>>),
                            start_ln, r.current + 1),
         current |-> r.current]

\* parse_heading with the count of the hashes left out
parse_heading_LevelOne(p) ==
    LET start_ln == p.current + 1
        line     == Strip(peek(p))
        m        == HEADING_LINE_RE(line)
    IN  [node |-> IF m = <<>>
                  THEN Heading(1, line, start_ln, start_ln + 1)
                  ELSE Heading(1, m[2], start_ln, start_ln + 1),
         current |-> p.current + 1]

parse_heading(p) ==
    LET start_ln == p.current + 1
        line     == Strip(peek(p))
        m        == HEADING_LINE_RE(line)
    IN  [node |-> IF m = <<>>
                  THEN Heading(1, line, start_ln, start_ln + 1)
                  ELSE Heading(Len(m[1]), m[2], start_ln, start_ln + 1),
         current |-> p.current + 1]

\* MarkerMatch taking a marker of either kind
MarkerMatch_AnyMarker(marker_re, s) ==
    IF UNORDERED_MARKER_RE(s) > 0 THEN UNORDERED_MARKER_RE(s)
    ELSE ORDERED_MARKER_RE(s)

MarkerMatch(marker_re, s) ==
    IF marker_re = "UNORDERED_MARKER_RE" THEN UNORDERED_MARKER_RE(s)
    ELSE ORDERED_MARKER_RE(s)

RECURSIVE _collect_list_items(_, _, _, _)
_collect_list_items(p, marker_re, cur, items) ==
    IF cur >= p.total \/ MarkerMatch(marker_re, p.lines[cur + 1]) = 0
    THEN [current |-> cur, items |-> items]
    ELSE LET ln   == cur + 1
             line == p.lines[cur + 1]
             text == RStrip(SubSeq(line, MarkerMatch(marker_re, line) + 1,
                                   Len(line)))
             para == Paragraph(text, ln, ln + 1)
         IN  _collect_list_items(p, marker_re, cur + 1,
                 Append(items, ListItem(<<para>>, ln, ln + 1)))

parse_unordered_list(p) ==
    LET start_ln == p.current + 1
        r == _collect_list_items(p, "UNORDERED_MARKER_RE", p.current, <<>>)
    IN  [node |-> UnorderedList(r.items, start_ln, r.current + 1),
         current |-> r.current]

parse_ordered_list(p) ==
    LET start_ln == p.current + 1
        r == _collect_list_items(p, "ORDERED_MARKER_RE", p.current, <<>>)
    IN  [node |-> OrderedList(r.items, start_ln, r.current + 1),
         current |-> r.current]

RECURSIVE QuoteLoop(_, _, _)
QuoteLoop(p, cur, lines) ==
    IF cur >= p.total \/ ~StartsWith(LStrip(p.lines[cur + 1]), <<">">>)
    THEN [current |-> cur, lines |-> lines]
    ELSE QuoteLoop(p, cur + 1,
             Append(lines, LStrip(Tail(LStrip(p.lines[cur + 1])))))

\* parse_quote_block taking one more line after the quoted ones
parse_quote_block_OneMore(p) ==
    LET start_ln == p.current + 1
        r == QuoteLoop(p, p.current, <<>>)
    IN  [node |-> QuoteBlock(r.lines, start_ln, r.current + 1),
         current |-> r.current + 1]

parse_quote_block(p) ==
    LET start_ln == p.current + 1
        r == QuoteLoop(p, p.current, <<>>)
    IN  [node |-> QuoteBlock(r.lines, start_ln, r.current + 1),
         current |-> r.current]

RECURSIVE ParagraphLoop(_, _, _)
ParagraphLoop(p, cur, lines) ==
    IF cur >= p.total THEN [current |-> cur, lines |-> lines]
    ELSE LET line == p.lines[cur + 1]
         IN  IF Strip(line) = <<>> \/ PARA_BREAK_RE(line)
             THEN [current |-> cur, lines |-> lines]
             ELSE ParagraphLoop(p, cur + 1, Append(lines, Strip(line)))

parse_paragraph(p) ==
    LET start_ln == p.current + 1
        r == ParagraphLoop(p, p.current, <<>>)
    IN  [node |-> Paragraph(Join(r.lines, <<" ">>), start_ln, r.current + 1),
         current |-> r.current]

(***************************************************************************)
(* The loops of parse_admonition and parse_tab_block that run before the   *)
(* nested parse                                                            *)
(***************************************************************************)
\* while not eof and not peek().strip(): next_line()
RECURSIVE SkipBlankLines(_, _)
SkipBlankLines(p, cur) ==
    IF cur >= p.total \/ Strip(p.lines[cur + 1]) # <<>> THEN cur
    ELSE SkipBlankLines(p, cur + 1)

Indented(line) ==
    StartsWith(line, <<" ", " ", " ", " ">>) \/ StartsWith(line, <<"\t">>)

RECURSIVE AdmonitionBody(_, _, _)
AdmonitionBody(p, cur, body_lines) ==
    IF cur >= p.total \/ ~Indented(p.lines[cur + 1])
    THEN [current |-> cur, lines |-> body_lines]
    ELSE AdmonitionBody(p, cur + 1,
             Append(body_lines, LStrip(p.lines[cur + 1])))

RECURSIVE TabContent(_, _, _)
TabContent(p, cur, content) ==
    IF \/ cur >= p.total
       \/ TAB_HEADER_RE(p.lines[cur + 1]) # <<>>
       \/ Strip(p.lines[cur + 1]) = <<>>
       \/ ~Indented(p.lines[cur + 1])
    THEN [current |-> cur, lines |-> content]
    ELSE TabContent(p, cur + 1, Append(content, LStrip(p.lines[cur + 1])))

(***************************************************************************)
(* Inputs                                                                  *)
(***************************************************************************)
SP4 == <<" ", " ", " ", " ">>

\* the lines the texts are made of
Lines ==
    { <<>>,
      <<" ">>,
      FENCE,
      <<"#", " ", "a">>,
      <<"#", "#", " ", "a">>,
      <<"#", "#", " ">>,
      <<"-", " ", "a">>,
      <<"1", ".", " ", "a">>,
      <<">", "a">>,
      <<"!", "!", "!">>,
      <<"?", "?", "?", " ", "n", " ", "\"", "T", "\"">>,
      <<"=", "=", "=">>,
      <<"=", "=", "=", " ", "\"", "A", "\"">>,
      <<"a">>,
      <<":", ":", ":">>,
      SP4 \o <<"b">>,
      SP4 \o <<"!", "!", "!">>,
      SP4 \o SP4 \o <<"c">> }

\* one line for each branch of the dispatcher, and a body line
CoreLines ==
    { <<>>,
      FENCE,
      <<"#", " ", "a">>,
      <<"-", " ", "a">>,
      <<"1", ".", " ", "a">>,
      <<">", "a">>,
      <<"?", "?", "?", " ", "n", " ", "\"", "T", "\"">>,
      <<"=", "=", "=">>,
      <<"=", "=", "=", " ", "\"", "A", "\"">>,
      <<"a">>,
      <<"[", "x", "]", "(", "u", ")">>,
      SP4 \o <<"b">> }

LineSeqs(S, n) == UNION {[1..k -> S] : k \in 0..n}

Texts == {Join(ls, <<NL>>) : ls \in LineSeqs(Lines, MaxLines)}

LongTexts == {Join(ls, <<NL>>) : ls \in LineSeqs(CoreLines, MaxLongLines)}

(***************************************************************************)
(* State                                                                   *)
(***************************************************************************)
VARIABLES
    text,    \* the text given to the outermost Parser
    stack,   \* the live Parser instances, outermost first
    pc,      \* "running", "done" (parse() has returned), "error" (parse()
             \* was left by an exception)
    result,  \* <<>>, or <<d>> for the Document d the outermost parse() returned
    last     \* the last dispatch: the handler chosen, the line it was chosen
             \* for, the cursor before the call and after it, the phase

vars == <<text, stack, pc, result, last>>

Top == stack[Len(stack)]

Parent == stack[Len(stack) - 1]

SetTop(p) == [stack EXCEPT ![Len(stack)] = p]

NoCall ==
    [handler |-> "none", phase |-> "none", line |-> <<>>, before |-> 0,
     after |-> 0]

Call(handler, phase, line, before, after) ==
    [handler |-> handler, phase |-> phase, line |-> line, before |-> before,
     after |-> after]

InitWith(t) ==
    /\ text = t
    /\ stack = <<Parser(t)>>
    /\ pc = "running"
    /\ result = <<>>
    /\ last = NoCall

Init == \E t \in Texts : InitWith(t)

InitLong == \E t \in LongTexts : InitWith(t)

(***************************************************************************)
(* parse -> parse_block, one action per branch of the dispatcher           *)
(***************************************************************************)
\* parse() is in its loop, not at eof, and parse_block chooses handler h
Dispatches(h) ==
    /\ pc = "running"
    /\ Top.at = "parse"
    /\ ~eof(Top)
    /\ parse_block(peek(Top)) = h

\* blocks.append(block) will succeed
HasRoom == Len(Top.blocks) < MaxBlocks

\* parse_block returns r.node with the cursor at r.current; parse appends it
Returns(h, r) ==
    /\ HasRoom
    /\ stack' = SetTop([Top EXCEPT !.current = r.current,
                                   !.blocks = Append(@, r.node)])
    /\ last' = Call(h, "return", peek(Top), Top.current, r.current)
    /\ UNCHANGED <<text, pc, result>>

SkipBlank ==
    /\ Dispatches("blank")
    /\ stack' = SetTop([Top EXCEPT !.current = @ + 1])
    /\ last' = Call("blank", "return", peek(Top), Top.current, Top.current + 1)
    /\ UNCHANGED <<text, pc, result>>

ParseCodeBlock ==
    /\ Dispatches("code_block")
    /\ Returns("code_block", parse_code_block(Top))

ParseHeading ==
    /\ Dispatches("heading")
    /\ Returns("heading", parse_heading(Top))

ParseUnorderedList ==
    /\ Dispatches("unordered_list")
    /\ Returns("unordered_list", parse_unordered_list(Top))

ParseOrderedList ==
    /\ Dispatches("ordered_list")
    /\ Returns("ordered_list", parse_ordered_list(Top))

ParseQuoteBlock ==
    /\ Dispatches("quote_block")
    /\ Returns("quote_block", parse_quote_block(Top))

ParseParagraph ==
    /\ Dispatches("paragraph")
    /\ Returns("paragraph", parse_paragraph(Top))

(***************************************************************************)
(* parse_admonition: up to the nested Parser(...), then its return         *)
(***************************************************************************)
ParseAdmonition ==
    /\ Dispatches("admonition")
    /\ HasRoom
    /\ LET start_ln == Top.current + 1
           header   == Strip(peek(Top))
           parts    == SplitFirst(header)
           title    == IF Len(parts) > 1
                       THEN StripChars(parts[2], {"\""}) ELSE <<>>
           cur      == SkipBlankLines(Top, Top.current + 1)
           body     == AdmonitionBody(Top, cur, <<>>)
           raised   == Len(parts) = 0    \* parts[0] raises IndexError
       IN  /\ pc' = IF raised THEN "error" ELSE pc
           /\ stack' = IF raised THEN stack
                       ELSE Append(
                           SetTop([Top EXCEPT !.current = body.current,
                                              !.at = "admonition",
                                              !.start_ln = start_ln,
                                              !.tag = parts[1],
                                              !.title = title]),
                           Parser(Join(body.lines, <<NL>>)))
           /\ last' = Call("admonition", "call", peek(Top), Top.current,
                           IF raised THEN Top.current + 1 ELSE body.current)
    /\ UNCHANGED <<text, result>>

\* AdmonitionReturn with the span of the header line only
AdmonitionReturn_HeaderSpan ==
    /\ pc = "running"
    /\ Len(stack) > 1
    /\ Top.at = "parse" /\ eof(Top)
    /\ Parent.at = "admonition"
    /\ LET inner == parse(Top)
           p     == Parent
           node  == Admonition(p.tag, p.title, inner.blocks, FALSE,
                               p.start_ln, p.start_ln + 1)
       IN  /\ stack' = Append(SubSeq(stack, 1, Len(stack) - 2),
                          [p EXCEPT !.at = "parse",
                                    !.blocks = Append(@, node)])
           /\ last' = Call("admonition", "return", p.lines[p.start_ln],
                           p.start_ln - 1, p.current)
    /\ UNCHANGED <<text, pc, result>>

\* the nested parse() returns inner; parse_admonition returns the Admonition
AdmonitionReturn ==
    /\ pc = "running"
    /\ Len(stack) > 1
    /\ Top.at = "parse" /\ eof(Top)
    /\ Parent.at = "admonition"
    /\ LET inner == parse(Top)
           p     == Parent
           node  == Admonition(p.tag, p.title, inner.blocks, FALSE,
                               p.start_ln, p.current + 1)
       IN  /\ stack' = Append(SubSeq(stack, 1, Len(stack) - 2),
                          [p EXCEPT !.at = "parse",
                                    !.blocks = Append(@, node)])
           /\ last' = Call("admonition", "return", p.lines[p.start_ln],
                           p.start_ln - 1, p.current)
    /\ UNCHANGED <<text, pc, result>>

(***************************************************************************)
(* parse_tab_block: entry, one turn of its loop up to the nested           *)
(* Parser(...), the return of the nested parse, the end of the loop        *)
(***************************************************************************)
ParseTabBlock ==
    /\ Dispatches("tab_block")
    /\ HasRoom
    /\ stack' = SetTop([Top EXCEPT !.at = "tabs",
                                   !.start_ln = Top.current + 1,
                                   !.tabs = <<>>])
    /\ last' = Call("tab_block", "call", peek(Top), Top.current, Top.current)
    /\ UNCHANGED <<text, pc, result>>

TabNext ==
    /\ pc = "running"
    /\ Top.at = "tabs"
    /\ ~eof(Top) /\ TAB_HEADER_RE(peek(Top)) # <<>>
    /\ LET header_ln == Top.current + 1
           m         == TAB_HEADER_RE(peek(Top))
           cur       == SkipBlankLines(Top, Top.current + 1)
           content   == TabContent(Top, cur, <<>>)
           raised    == Len(m) = 0    \* assert m is not None
       IN  /\ pc' = IF raised THEN "error" ELSE pc
           /\ stack' = IF raised THEN stack
                       ELSE Append(
                           SetTop([Top EXCEPT !.current = content.current,
                                              !.at = "tab",
                                              !.header_ln = header_ln,
                                              !.title = m[1]]),
                           Parser(Join(content.lines, <<NL>>)))
    /\ last' = [last EXCEPT !.phase = "call"]
    /\ UNCHANGED <<text, result>>

\* the nested parse() returns inner; the Tab is appended to tabs
TabReturn ==
    /\ pc = "running"
    /\ Len(stack) > 1
    /\ Top.at = "parse" /\ eof(Top)
    /\ Parent.at = "tab"
    /\ LET inner == parse(Top)
           p     == Parent
           node  == Tab(p.title, inner.blocks, p.header_ln, p.current + 1)
       IN  stack' = Append(SubSeq(stack, 1, Len(stack) - 2),
                       [p EXCEPT !.at = "tabs", !.tabs = Append(@, node)])
    /\ last' = Call("tab_block", "call", Parent.lines[Parent.start_ln],
                    Parent.start_ln - 1, Parent.current)
    /\ UNCHANGED <<text, pc, result>>

TabEnd ==
    /\ pc = "running"
    /\ Top.at = "tabs"
    /\ eof(Top) \/ TAB_HEADER_RE(peek(Top)) = <<>>
    /\ stack' = SetTop([Top EXCEPT
           !.at = "parse",
           !.blocks = Append(@, TabBlock(Top.tabs, Top.start_ln,
                                         Top.current + 1))])
    /\ last' = Call("tab_block", "return", Top.lines[Top.start_ln],
                    Top.start_ln - 1, Top.current)
    /\ UNCHANGED <<text, pc, result>>

(***************************************************************************)
(* parse: blocks.append(block) when the list cannot grow any more raises   *)
(* MemoryError, which nothing catches                                      *)
(***************************************************************************)
MemoryError ==
    /\ pc = "running"
    /\ Top.at = "parse"
    /\ ~eof(Top)
    /\ parse_block(peek(Top)) # "blank"
    /\ ~HasRoom
    /\ pc' = "error"
    /\ UNCHANGED <<text, stack, result, last>>

(***************************************************************************)
(* the outermost parse() returns                                           *)
(***************************************************************************)
ParseReturn ==
    /\ pc = "running"
    /\ Len(stack) = 1
    /\ Top.at = "parse" /\ eof(Top)
    /\ result' = <<parse(Top)>>
    /\ pc' = "done"
    /\ UNCHANGED <<text, stack, last>>

Next ==
    \/ SkipBlank
    \/ ParseCodeBlock
    \/ ParseHeading
    \/ ParseUnorderedList
    \/ ParseOrderedList
    \/ ParseQuoteBlock
    \/ ParseParagraph
    \/ ParseAdmonition
    \/ AdmonitionReturn
    \/ ParseTabBlock
    \/ TabNext
    \/ TabReturn
    \/ TabEnd
    \/ MemoryError
    \/ ParseReturn

Spec == Init /\ [][Next]_vars

SpecLong == InitLong /\ [][Next]_vars

TypeOK ==
    /\ pc \in {"running", "done", "error"}
    /\ Len(stack) >= 1
    /\ Len(result) <= 1

(***************************************************************************)
(* Properties                                                              *)
(***************************************************************************)
\* the node the handler of the last dispatch returned
LastBlock == Top.blocks[Len(Top.blocks)]

Returned(h) == last.handler = h /\ last.phase = "return"

\* physical lines of a text: its newlines, and a last line without one
PhysicalLines(t) ==
    Cardinality({i \in 1..Len(t) : t[i] = NL})
    + (IF t # <<>> /\ t[Len(t)] # NL THEN 1 ELSE 0)

\* C1: the Document parse() returns has start_line 1 and limit_line
\* total_lines + 1, total_lines being the number of physical lines of the
\* text, whatever the text (the empty text included).
C1_DocumentSpan ==
    pc = "done" =>
        /\ result[1].kind = "Document"
        /\ result[1].start_line = 1
        /\ result[1].limit_line = PhysicalLines(text) + 1

C1_Witness ==
    /\ pc = "done"
    /\ PhysicalLines(text) = 3
    /\ Len(result[1].blocks) = 2

\* C2: every call of parse_block made while the cursor is not at end of
\* input returns with the cursor at least one line further than it found it.
C2_BlockAdvances ==
    last.phase = "return" => last.after > last.before

RECURSIVE C3_SpansOK(_)
C3_SpansOK(n) ==
    LET ch == IF n.kind \in {"Document", "ListItem", "Tab", "Admonition"}
              THEN n.blocks
              ELSE IF n.kind \in {"UnorderedList", "OrderedList"} THEN n.items
              ELSE IF n.kind = "TabBlock" THEN n.tabs
              ELSE <<>>
    IN  /\ \A i \in 1..Len(ch) :
              /\ n.start_line <= ch[i].start_line
              /\ ch[i].limit_line <= n.limit_line
              /\ C3_SpansOK(ch[i])
        /\ \A i \in 1..Len(ch) : \A j \in 1..Len(ch) :
              i < j => ch[i].limit_line <= ch[j].start_line

\* C3: in the tree parse() returns, every child's span lies inside its
\* parent's span and the spans of siblings are disjoint and increasing, at
\* every level (the blocks of an Admonition or a Tab, the ListItems of a list).
C3_SpansNested ==
    pc = "done" => C3_SpansOK(result[1])

\* C4: parse() never ends in an error state: whatever the text, the malformed
\* headers included, nothing raises or fails an assertion on the way to the
\* return of the Document.
C4_NeverErrorState ==
    pc # "error"

\* C5: the handler chosen for the current non-blank line is that of the first
\* pattern the line matches in the order code fence, heading, unordered
\* marker, ordered marker, blockquote, admonition, tab header; paragraph is
\* chosen only when the line matches none of the seven.
C5_FirstMatchWins ==
    LET line == last.line
        matches ==
            << StartsWith(line, FENCE),
               HEADING_PREFIX_RE(line) > 0,
               UNORDERED_MARKER_RE(line) > 0,
               ORDERED_MARKER_RE(line) > 0,
               StartsWith(line, <<">">>),
               StartsWith(line, <<"!", "!", "!">>)
                   \/ StartsWith(line, <<"?", "?", "?">>),
               StartsWith(line, <<"=", "=", "=">>) >>
        handlers ==
            << "code_block", "heading", "unordered_list", "ordered_list",
               "quote_block", "admonition", "tab_block" >>
        hits == {i \in 1..7 : matches[i]}
    IN  (last.handler # "none" /\ line # <<>>) =>
            /\ hits # {} => last.handler = handlers[Min(hits)]
            /\ hits = {} <=> last.handler = "paragraph"

C5_Witness ==
    /\ Returned("heading")
    /\ last.before > 0
    /\ Len(Top.blocks) = 2
    /\ Top.blocks[1].kind = "Paragraph"

\* C6: no line is dropped: in the Document returned, every non-blank physical
\* line lies inside the span of exactly one top-level block; and a line that
\* ends the body of an admonition or of a tab because it is not indented is
\* left to the dispatcher, the cursor standing on it when the handler returns.
C6_NoLineDropped ==
    /\ pc = "done" =>
          \A i \in 1..Len(stack[1].lines) :
              Strip(stack[1].lines[i]) # <<>> =>
                  Cardinality({k \in 1..Len(result[1].blocks) :
                      /\ result[1].blocks[k].start_line <= i
                      /\ i < result[1].blocks[k].limit_line}) = 1
    /\ (Returned("admonition") \/ Returned("tab_block")) =>
          /\ Top.current = last.after
          /\ LastBlock.limit_line = last.after + 1
          /\ LastBlock.start_line = last.before + 1

C6_Witness ==
    /\ pc = "done"
    /\ Len(result[1].blocks) = 2
    /\ result[1].blocks[1].kind = "Admonition"
    /\ result[1].blocks[1].limit_line = 3
    /\ Len(result[1].blocks[1].blocks) = 1
    /\ result[1].blocks[2].kind = "Paragraph"
    /\ result[1].blocks[2].start_line = 3

\* C7: a fence opened at line s with no later line whose trimmed form starts
\* with the fence gives a CodeBlock [s, total_lines + 1) whose content is all
\* the lines after s joined by newlines, the cursor at end of input; with a
\* closing fence at line e, the span is [s, e + 1) and the content the lines
\* strictly between s and e.
C7_CodeFence ==
    Returned("code_block") =>
        LET s == last.before + 1
            closing == {e \in (s + 1)..Top.total :
                           StartsWith(Strip(Top.lines[e]), FENCE)}
            e == Min(closing)
        IN  /\ LastBlock.kind = "CodeBlock"
            /\ LastBlock.start_line = s
            /\ IF closing = {}
               THEN /\ LastBlock.limit_line = Top.total + 1
                    /\ LastBlock.content =
                           Join(SubSeq(Top.lines, s + 1, Top.total), <<NL>>)
                    /\ Top.current = Top.total
               ELSE /\ LastBlock.limit_line = e + 1
                    /\ LastBlock.content =
                           Join(SubSeq(Top.lines, s + 1, e - 1), <<NL>>)
                    /\ Top.current = e

C7_Witness ==
    /\ Returned("code_block")
    /\ Top.total = 3
    /\ LastBlock.start_line = 1
    /\ LastBlock.limit_line = 4
    /\ Len(LastBlock.content) = 3
    /\ ~StartsWith(Strip(Top.lines[3]), FENCE)

\* C8: a paragraph consumes the consecutive non-blank lines up to, and not
\* including, the first line that is blank or matches another block-start
\* pattern (code fence, heading, list marker, blockquote, admonition, tab
\* header); its value is the consumed lines, trimmed, joined by single
\* spaces, and its span is exactly the consumed lines.
C8_ParagraphRun ==
    Returned("paragraph") =>
        LET s == last.before + 1
            stops == {i \in s..Top.total :
                         \/ Strip(Top.lines[i]) = <<>>
                         \/ parse_block(Top.lines[i]) # "paragraph"}
            limit == IF stops = {} THEN Top.total + 1 ELSE Min(stops)
        IN  /\ LastBlock.start_line = s
            /\ LastBlock.limit_line = limit
            /\ Top.current = limit - 1
            /\ LastBlock.value =
                   Join([i \in 1..(limit - s) |-> Strip(Top.lines[s + i - 1])],
                        <<" ">>)

\* C9: a tab block ends only when the next non-blank line is not a tab
\* header: blank separator lines after a tab's content are skipped and a tab
\* header that follows them is a tab of the same TabBlock; each Tab has the
\* title captured from its header.
C9_TabsCollected ==
    Returned("tab_block") =>
        LET rest == {i \in (Top.current + 1)..Top.total :
                        Strip(Top.lines[i]) # <<>>}
        IN  /\ rest # {} => TAB_HEADER_RE(Top.lines[Min(rest)]) = <<>>
            /\ \A k \in 1..Len(LastBlock.tabs) :
                   <<LastBlock.tabs[k].title>> =
                       TAB_HEADER_RE(Top.lines[LastBlock.tabs[k].start_line])

\* C10: for a header <tag> <kind> "<Title>" with tag !!! or ???, the
\* Admonition has the marker as tag and the text between the double quotes as
\* title (and, for one indented body line, exactly one nested Paragraph with
\* the body line as value).
C10_TagAndTitle ==
    LET line   == last.line
        quotes == {i \in 1..Len(line) : line[i] = "\""}
    IN  (Returned("admonition") /\ Cardinality(quotes) = 2) =>
            /\ LastBlock.tag = SubSeq(line, 1, 3)
            /\ LastBlock.title = SubSeq(line, Min(quotes) + 1, Max(quotes) - 1)
            /\ (/\ LastBlock.limit_line = LastBlock.start_line + 2
                /\ Top.lines[LastBlock.start_line + 1] = SP4 \o <<"b">>)
               => /\ Len(LastBlock.blocks) = 1
                  /\ LastBlock.blocks[1].kind = "Paragraph"
                  /\ LastBlock.blocks[1].value = <<"b">>

\* C11: for a text consisting only of blank lines (empty or whitespace-only
\* lines, any number of them) no node is ever produced and parse() returns a
\* Document with zero blocks.
C11_BlankOnly ==
    (\A i \in 1..Len(stack[1].lines) : Strip(stack[1].lines[i]) = <<>>) =>
        /\ stack[1].blocks = <<>>
        /\ pc # "error"
        /\ pc = "done" => result[1].blocks = <<>>

C14_ListRun ==
    (Returned("unordered_list") \/ Returned("ordered_list")) =>
        LET unordered == last.handler = "unordered_list"
            marker(l) == IF unordered THEN UNORDERED_MARKER_RE(l)
                         ELSE ORDERED_MARKER_RE(l)
            s     == last.before + 1
            other == {i \in s..Top.total : marker(Top.lines[i]) = 0}
            limit == IF other = {} THEN Top.total + 1 ELSE Min(other)
        IN  /\ LastBlock.kind = IF unordered THEN "UnorderedList"
                                ELSE "OrderedList"
            /\ limit > s
            /\ LastBlock.start_line = s
            /\ LastBlock.limit_line = limit
            /\ Top.current = limit - 1
            /\ Len(LastBlock.items) = limit - s
            /\ \A k \in 1..Len(LastBlock.items) :
                   LET item == LastBlock.items[k]
                       n    == s + k - 1
                       line == Top.lines[n]
                   IN  /\ item.kind = "ListItem"
                       /\ item.start_line = n
                       /\ item.limit_line = n + 1
                       /\ Len(item.blocks) = 1
                       /\ item.blocks[1].kind = "Paragraph"
                       /\ item.blocks[1].value =
                              RStrip(SubSeq(line, marker(line) + 1, Len(line)))

C14_Witness ==
    /\ Returned("unordered_list")
    /\ Top.total = 3
    /\ Len(LastBlock.items) = 2
    /\ LastBlock.items[2].blocks[1].value = <<"a">>
    /\ LastBlock.limit_line = 3
    /\ Top.current = 2
    /\ ORDERED_MARKER_RE(Top.lines[3]) > 0

\* the link [label](url) that starts at position i of s: <<>> when there is
\* none, else <<label, url, length of the match>>
LinkAt(s, i) ==
    LET l == RunNotIn(s, i + 1, {"]"})
        u == RunNotIn(s, i + l + 3, {")"})
    IN  IF /\ CharAt(s, i, {"["})
           /\ l >= 1
           /\ CharAt(s, i + l + 1, {"]"})
           /\ CharAt(s, i + l + 2, {"("})
           /\ u >= 1
           /\ CharAt(s, i + l + u + 3, {")"})
        THEN <<SubSeq(s, i + 1, i + l), SubSeq(s, i + l + 3, i + l + u + 2),
               l + u + 4>>
        ELSE <<>>

\* the inline runs of s by one left-to-right scan from position i on, lit
\* being the literal text gathered since the last match
RECURSIVE InlineRuns(_, _, _)
InlineRuns(s, i, lit) ==
    LET text_run == IF lit = <<>> THEN <<>>
                    ELSE <<[kind |-> "TextInline", value |-> lit]>>
    IN  IF i > Len(s) THEN text_run
        ELSE IF LinkAt(s, i) # <<>>
             THEN text_run
                  \o <<[kind |-> "LinkInline", label |-> LinkAt(s, i)[1],
                        url |-> LinkAt(s, i)[2]]>>
                  \o InlineRuns(s, i + LinkAt(s, i)[3], <<>>)
             ELSE InlineRuns(s, i + 1, Append(lit, s[i]))

\* C15: the text of every Paragraph and Heading is split into an ordered
\* sequence of inline runs by one left-to-right scan for [text](url): one
\* LinkInline with the label and the URL per match, TextInline runs for the
\* literal text between and around the matches, empty literal runs omitted.
C15_InlineRuns ==
    (Returned("paragraph") \/ Returned("heading")) =>
        /\ "inlines" \in DOMAIN LastBlock
        /\ LastBlock.inlines = InlineRuns(LastBlock.value, 1, <<>>)

\* a line with one indentation level (four spaces or a tab) removed
Dedent(line) ==
    IF StartsWith(line, SP4) THEN SubSeq(line, 5, Len(line))
    ELSE IF StartsWith(line, <<"\t">>) THEN Tail(line)
    ELSE line

\* C16: the body of an admonition is parsed as a sub-document after one
\* indentation level is removed from each body line: when the first body
\* line is an admonition header one level deep and the next body line is two
\* levels deep, the Admonition's first block is a child Admonition that
\* itself contains blocks (the deeper line is its body).
C16_NestedBody ==
    LET h == LastBlock.start_line
    IN  (/\ Returned("admonition")
         /\ LastBlock.limit_line >= h + 3
         /\ Indented(Top.lines[h + 1])
         /\ parse_block(Dedent(Top.lines[h + 1])) = "admonition"
         /\ Indented(Top.lines[h + 2])
         /\ Indented(Dedent(Top.lines[h + 2]))
         /\ Strip(Top.lines[h + 2]) # <<>>) =>
            /\ Len(LastBlock.blocks) = 1
            /\ LastBlock.blocks[1].kind = "Admonition"
            /\ LastBlock.blocks[1].start_line = 1
            /\ LastBlock.blocks[1].limit_line = 3
            /\ LastBlock.blocks[1].blocks # <<>>

CursorInInput ==
    \A i \in 1..Len(stack) :
        /\ stack[i].current >= 0
        /\ stack[i].current <= stack[i].total
        /\ stack[i].total = Len(stack[i].lines)

\* a step leaves the lines and total of every parser alone, decreases no
\* cursor, and leaves the cursor of every parser below the running one alone
CursorStep ==
    \A i \in 1..Min({Len(stack), Len(stack')}) :
        /\ stack'[i].lines = stack[i].lines
        /\ stack'[i].total = stack[i].total
        /\ stack'[i].current >= stack[i].current
        /\ i < Len(stack) => stack'[i].current = stack[i].current

\* C18: the cursor never backtracks and never leaves the input: in every
\* reachable state 0 <= current <= total, no step decreases current, the line
\* array and total are never modified after construction, and a nested parse
\* of an admonition or tab body changes neither the outer parser's cursor nor
\* its line array.
C18_CursorMonotonic == []CursorInInput /\ [][CursorStep]_vars

C18_Witness ==
    /\ Len(stack) = 2
    /\ stack[1].at = "admonition"
    /\ stack[1].current = 3
    /\ stack[2].total = 2
    /\ stack[2].current = 1
    /\ Len(stack[2].blocks) = 1

====
